---- MODULE Spec2Model ----
(***************************************************************************)
(* RouterWay static server: the concurrent file cache (src/src/cache.rs)   *)
(* and the request dispatch (src/src/server.rs) as a state machine.        *)
(*                                                                         *)
(* Strings are sequences of one-character strings, so that prefix tests,   *)
(* slicing and substring search are computed as the code computes them.    *)
(* A file content (Vec<u8>) is a record [len, tag]: its length in bytes    *)
(* and a tag that tells apart two byte strings of the same length.         *)
(* The u64 counter total_size is kept as an integer; a value below zero    *)
(* stands for the wrapped value 2^64 + v (see u64_gt).                     *)
(***************************************************************************)
EXTENDS Integers, Sequences, FiniteSets, TLC

(***************************************************************************)
(* Bounds of the model                                                     *)
(***************************************************************************)
MaxOps == 3
MaxTime == 1
MaxRawLen == 2

\* the tasks that use the cache
Procs == {1, 2}

(***************************************************************************)
(* Program constants                                                       *)
(***************************************************************************)
\* 10 * 1024 * 1024, the per-file ceiling of insert_async and load_file_to_cache
PerFileCeiling == 10485760

(***************************************************************************)
(* Strings                                                                 *)
(***************************************************************************)
IndexHtml == <<"i", "n", "d", "e", "x", ".", "h", "t", "m", "l">>

\* str::starts_with
starts_with(s, pre) ==
    /\ Len(pre) <= Len(s)
    /\ SubSeq(s, 1, Len(pre)) = pre

\* str::ends_with
ends_with(s, suf) ==
    /\ Len(suf) <= Len(s)
    /\ SubSeq(s, Len(s) - Len(suf) + 1, Len(s)) = suf

\* &s[1..]
tail1(s) == SubSeq(s, 2, Len(s))

\* the start positions (1-based) at which pat occurs in s
occurrences(s, pat) ==
    {i \in 1..(Len(s) - Len(pat) + 1) : SubSeq(s, i, i + Len(pat) - 1) = pat}

\* str::contains
contains(s, pat) == occurrences(s, pat) # {}

Min(S) == CHOOSE x \in S : \A y \in S : x <= y

(***************************************************************************)
(* Inputs                                                                  *)
(***************************************************************************)
\* the names of the error pages and their directory under the root
Str404Html == <<"4", "0", "4", ".", "h", "t", "m", "l">>
Str400Html == <<"4", "0", "0", ".", "h", "t", "m", "l">>
Str403Html == <<"4", "0", "3", ".", "h", "t", "m", "l">>
Str500Html == <<"5", "0", "0", ".", "h", "t", "m", "l">>
Str502Html == <<"5", "0", "2", ".", "h", "t", "m", "l">>
Str503Html == <<"5", "0", "3", ".", "h", "t", "m", "l">>
StrErrorHtml == <<"e", "r", "r", "o", "r", ".", "h", "t", "m", "l">>
StrErrorsDir == <<"E", "r", "r", "o", "r", "s", "/">>

Content(n, t) == [len |-> n, tag |-> t]
NoContent == Content(0, "none")

\* contents handed to insert_async: one byte, exactly the ceiling, and a byte
\* above the ceiling
Contents ==
    { Content(1, "x"), Content(PerFileCeiling, "y"),
      Content(PerFileCeiling + 1, "z") }

\* the keys of the map, in the order the sweep visits them
KeyOrder ==
    << <<>>, <<"a">>, <<"/", "a">>, IndexHtml, StrErrorsDir \o Str404Html,
       <<"a", "a">>, <<".", "a">>, <<"a", "~">> >>

AllKeys == {KeyOrder[i] : i \in 1..Len(KeyOrder)}

\* the place of a key in KeyOrder
key_index(key) == CHOOSE i \in 1..Len(KeyOrder) : KeyOrder[i] = key

\* keys handed to insert_async
InsertKeys == { <<>>, <<"a">>, <<"/", "a">>, IndexHtml }

\* paths handed to get and get_fast
GetPaths ==
    { <<>>, <<"/">>, <<"a">>, <<"/", "a">>, IndexHtml,
      <<"/", "/">>, <<"/", "/", "a">> }

\* max_age_seconds handed to cleanup_old_entries
MaxAges == {0, 1}

\* the configured budgets (max_size)
MaxSizes == {PerFileCeiling + 1}

\* the files under the root directory: relative path -> content
RootFiles ==
    { [path |-> IndexHtml, content |-> Content(1, "i"), mime |-> "text/html"],
      [path |-> <<"a">>, content |-> Content(PerFileCeiling, "a"),
       mime |-> "application/octet-stream"],
      [path |-> <<".", "a">>, content |-> Content(1, "h"),
       mime |-> "application/octet-stream"],
      [path |-> StrErrorsDir \o Str404Html, content |-> Content(1, "n"),
       mime |-> "text/html"],
      [path |-> <<"a", "a">>, content |-> Content(PerFileCeiling + 1, "b"),
       mime |-> "application/octet-stream"],
      [path |-> <<"a", "~">>, content |-> Content(1, "t"),
       mime |-> "application/octet-stream"] }

(***************************************************************************)
(* State                                                                   *)
(***************************************************************************)
VARIABLES
    now,          \* SystemTime::now() in seconds
    enabled,      \* FileCache.enabled
    max_size,     \* FileCache.max_size
    routes,       \* Config.api: the ordered list of ApiConfig
    faults,       \* whether fs::metadata and fs::read of a file may fail
    cache,        \* FileCache.cache: key -> CachedFile (NoEntry: absent)
    total_size,   \* FileCache.total_size
    pc,           \* per task: the position in the operation it runs
    loc,          \* per task: the locals of the operation it runs
    ops,          \* number of operations started
    last,         \* the call that returned, until the next call begins
    prev_insert,  \* the insert_async call that returned just before the
                  \* latest call began (NoLoc: it was no insert_async)
    overlapped,   \* whether an admission passed its budget check while
                  \* another was between its check and its fetch_add
    replaced      \* whether an admission stored its entry under a key
                  \* that was present in the map

vars == <<now, enabled, max_size, routes, faults, cache, total_size, pc, loc, ops,
          last, prev_insert, overlapped, replaced>>

(***************************************************************************)
(* CachedFile                                                              *)
(***************************************************************************)
\* Option::None of get / get_fast, and an absent key of the map
NoEntry ==
    [content |-> NoContent, mime_type |-> "", last_modified |-> 0,
     access_count |-> 0, last_access |-> 0, size |-> 0, uid |-> 0]

\* CachedFile::new: size is the content's length, the access counter starts at
\* zero and last_access is the time of creation; uid names the allocation
\* (the Arcs a clone shares with the stored entry): the number of the call
CachedFile_new(content, mime_type, last_modified, t, uid) ==
    [content |-> content, mime_type |-> mime_type,
     last_modified |-> last_modified, access_count |-> 0, last_access |-> t,
     size |-> content.len, uid |-> uid]

EmptyCache == [k \in AllKeys |-> NoEntry]

\* DashMap::get(key).map(|e| e.clone())
lookup(m, key) == IF key \in AllKeys THEN m[key] ELSE NoEntry

stored_keys(m) == {k \in AllKeys : m[k] # NoEntry}

RECURSIVE sum_sizes(_, _)
sum_sizes(m, K) ==
    IF K = {} THEN 0
    ELSE LET k == CHOOSE x \in K : TRUE
         IN m[k].size + sum_sizes(m, K \ {k})

\* the sum of the sizes of the entries stored in m
stored_size(m) == sum_sizes(m, stored_keys(m))

(***************************************************************************)
(* u64 arithmetic of total_size                                            *)
(***************************************************************************)
\* a > b on u64, b never wrapped: a wrapped a (kept below zero) is 2^64 + a
u64_gt(a, b) == IF a < 0 THEN TRUE ELSE a > b

\* u64::saturating_sub
saturating_sub(a, b) == IF a > b THEN a - b ELSE 0

(***************************************************************************)
(* Responses                                                               *)
(***************************************************************************)
\* Response<Body>: the status, the Content-Type and the body. A body is
\* empty, the bytes of a file or of a cache entry, the upstream's body, or
\* the page create_error_response formats from a status code and a message
Response(status, content_type, body) ==
    [status |-> status, content_type |-> content_type, body |-> body]

Body(kind, content, code, message) ==
    [kind |-> kind, content |-> content, code |-> code, message |-> message]

EmptyBody == Body("empty", NoContent, 0, "")
BytesBody(content) == Body("bytes", content, 0, "")

NoResponse == Response(0, "", EmptyBody)

\* create_error_response: the page holds status.as_u16() and the message
create_error_response(status, message) ==
    Response(status, "text/html; charset=utf-8",
             Body("page", NoContent, status, message))

\* create_cors_response
create_cors_response(status, body) == Response(status, "", body)

(***************************************************************************)
(* Locals of a running operation, and the record of a returned call        *)
(***************************************************************************)
NoLoc ==
    [op |-> "none", path |-> <<>>, content |-> NoContent, mime |-> "",
     max_age |-> 0, admitted |-> FALSE, entry |-> NoEntry, ret |-> NoEntry,
     current_time |-> 0, pos |-> 0, freed_size |-> 0, removed_count |-> 0,
     removed |-> {},
     walk |-> {}, loaded |-> 0,
     method |-> "", raw |-> <<>>, decoded |-> <<>>, normalized |-> <<>>,
     via |-> "", route |-> 0, target |-> <<>>, status |-> 0,
     did_decode |-> FALSE, did_routes |-> FALSE, forwarded |-> FALSE,
     lookups |-> <<>>, reads |-> <<>>, resp |-> NoResponse, nresp |-> 0,
     up |-> [ok |-> FALSE, status |-> 0, content |-> NoContent],
     stats |-> <<0, 0, 0>>, visits |-> {},
     pre_total |-> 0, pre_cache |-> EmptyCache]

\* the locals at the call of operation op
Enter(op) ==
    [NoLoc EXCEPT !.op = op, !.pre_total = total_size, !.pre_cache = cache]

\* what a call leaves of the call before it
Before == IF last.op = "insert_async"
          THEN [last EXCEPT !.pre_cache = EmptyCache]
          ELSE NoLoc

Idle(p) == pc[p] = "idle"

\* no operation is in progress
Quiet == \A p \in Procs : Idle(p)

\* a task may start an operation
CanCall(p) == Idle(p) /\ ops < MaxOps

\* the positions of an admission between its budget check and its fetch_add
AdmissionWindow == {"insert_store", "insert_add", "load_store", "load_add"}

\* the operation of task p returns; r is the record of the call
Return(p, r) ==
    /\ pc' = [pc EXCEPT ![p] = "idle"]
    /\ loc' = [loc EXCEPT ![p] = NoLoc]
    /\ last' = r
    /\ prev_insert' = IF pc[p] = "idle" THEN Before ELSE prev_insert
    /\ overlapped' = overlapped
    /\ replaced' = replaced

\* the operation of task p goes on at label; at its call it takes the place
\* of the call before it
Goto(p, label, l) ==
    /\ pc' = [pc EXCEPT ![p] = label]
    /\ loc' = [loc EXCEPT ![p] = l]
    /\ last' = IF pc[p] = "idle" THEN NoLoc ELSE last
    /\ prev_insert' = IF pc[p] = "idle" THEN Before ELSE prev_insert
    /\ overlapped' =
          \/ overlapped
          \/ /\ label \in AdmissionWindow
             /\ pc[p] \notin AdmissionWindow
             /\ \E q \in Procs \ {p} : pc[q] \in AdmissionWindow
    /\ replaced' =
          \/ replaced
          \/ /\ pc[p] \in {"insert_store", "load_store"}
             /\ cache[loc[p].path] # NoEntry

(***************************************************************************)
(* FileCache::get and FileCache::get_fast                                  *)
(***************************************************************************)
\* mutant of get_cache_key: the leading slash is stripped but the root path
\* is not mapped to index.html
get_cache_key_no_index(path) ==
    IF starts_with(path, <<"/">>) THEN tail1(path) ELSE path

\* get: strip one leading slash, then map the empty string and "/" to index.html
get_cache_key(path) ==
    LET normalized_path == IF starts_with(path, <<"/">>) THEN tail1(path) ELSE path
    IN IF normalized_path = <<>> \/ normalized_path = <<"/">>
       THEN IndexHtml
       ELSE normalized_path

\* get_fast: "/" and "" are index.html, else strip one leading slash
get_fast_cache_key(path) ==
    IF path = <<"/">> \/ path = <<>> THEN IndexHtml
    ELSE IF starts_with(path, <<"/">>) THEN tail1(path)
    ELSE path

\* the value get(path) returns in the state with map m
get_result(m, path) ==
    IF ~enabled THEN NoEntry ELSE lookup(m, get_cache_key(path))

\* the value get_fast(path) returns in the state with map m
get_fast_result(m, path) ==
    IF ~enabled THEN NoEntry ELSE lookup(m, get_fast_cache_key(path))

get(p, path) ==
    /\ CanCall(p)
    /\ ops' = ops + 1
    /\ Return(p, [Enter("get") EXCEPT !.path = path,
                                      !.current_time = now,
                                      !.ret = get_result(cache, path)])
    /\ UNCHANGED <<now, enabled, max_size, routes, faults, cache, total_size>>

get_fast(p, path) ==
    /\ CanCall(p)
    /\ ops' = ops + 1
    /\ Return(p, [Enter("get_fast") EXCEPT !.path = path,
                                           !.current_time = now,
                                           !.ret = get_fast_result(cache, path)])
    /\ UNCHANGED <<now, enabled, max_size, routes, faults, cache, total_size>>

\* get_stats: (cache.len(), total_size, max_size)
get_stats(p) ==
    /\ CanCall(p)
    /\ ops' = ops + 1
    /\ Return(p, [Enter("get_stats") EXCEPT
                     !.stats = <<Cardinality(stored_keys(cache)), total_size,
                                 max_size>>])
    /\ UNCHANGED <<now, enabled, max_size, routes, faults, cache, total_size>>

(***************************************************************************)
(* FileCache::insert_async                                                 *)
(***************************************************************************)
\* mutant of over_ceiling: one byte above the ceiling passes
over_ceiling_lenient(len) == len > PerFileCeiling + 1

\* the per-file ceiling: content.len() > 10 * 1024 * 1024
over_ceiling(len) == len > PerFileCeiling

\* mutant of over_budget: >= in place of >
over_budget_inclusive(current_total, len) ==
    u64_gt(current_total + len + 1, max_size)

\* the budget check: current_total + len > max_size
over_budget(current_total, len) == u64_gt(current_total + len, max_size)

\* the guards, the load of total_size and CachedFile::new
insert_async_call(p, path, content, mime) ==
    /\ CanCall(p)
    /\ ops' = ops + 1
    /\ LET l == [Enter("insert_async") EXCEPT !.path = path,
                                              !.content = content,
                                              !.mime = mime]
       IN IF ~enabled \/ over_ceiling(content.len)
          THEN Return(p, l)
          ELSE IF over_budget(total_size, content.len)
          THEN Return(p, l)
          ELSE    Goto(p, "insert_store",
                       [l EXCEPT !.admitted = TRUE,
                                 !.entry = CachedFile_new(content, mime, now,
                                                          now, ops + 1)])
    /\ UNCHANGED <<now, enabled, max_size, routes, faults, cache, total_size>>

\* mutant of insert_async_store: the map is emptied to make room
insert_async_store_evicts(p) ==
    /\ pc[p] = "insert_store"
    /\ cache' = [EmptyCache EXCEPT ![loc[p].path] = loc[p].entry]
    /\ Goto(p, "insert_add", loc[p])
    /\ UNCHANGED <<now, enabled, max_size, routes, faults, total_size, ops>>

\* self.cache.insert(path, cached_file)
insert_async_store(p) ==
    /\ pc[p] = "insert_store"
    /\ cache' = [cache EXCEPT ![loc[p].path] = loc[p].entry]
    /\ Goto(p, "insert_add", loc[p])
    /\ UNCHANGED <<now, enabled, max_size, routes, faults, total_size, ops>>

\* self.total_size.fetch_add(file_size)
insert_async_add(p) ==
    /\ pc[p] = "insert_add"
    /\ total_size' = total_size + loc[p].entry.size
    /\ Return(p, loc[p])
    /\ UNCHANGED <<now, enabled, max_size, routes, faults, cache, ops>>

(***************************************************************************)
(* FileCache::cleanup_old_entries                                          *)
(***************************************************************************)
\* mutant of expired: >= in place of >
expired_inclusive(cached_file, current_time, max_age_seconds) ==
    saturating_sub(current_time, cached_file.last_access) >= max_age_seconds

\* the retain closure's test: age > max_age_seconds
expired(cached_file, current_time, max_age_seconds) ==
    saturating_sub(current_time, cached_file.last_access) > max_age_seconds

\* the enabled guard and the one read of the clock
cleanup_old_entries(p, max_age_seconds) ==
    /\ CanCall(p)
    /\ ops' = ops + 1
    /\ LET l == [Enter("cleanup") EXCEPT !.max_age = max_age_seconds,
                                         !.current_time = now]
       IN IF ~enabled THEN Return(p, l) ELSE Goto(p, "cleanup_retain", l)
    /\ UNCHANGED <<now, enabled, max_size, routes, faults, cache, total_size>>

\* DashMap::retain visits the map shard by shard: one step visits the next
\* stored key in KeyOrder, or passes over keys that are absent when visited
cleanup_retain(p) ==
    /\ pc[p] = "cleanup_retain"
    /\ loc[p].pos < Len(KeyOrder)
    /\ \E j \in (loc[p].pos + 1)..Len(KeyOrder) :
          /\ \A i \in (loc[p].pos + 1)..(j - 1) : cache[KeyOrder[i]] = NoEntry
          /\ LET k == KeyOrder[j]
                 e == cache[k]
             IN IF e # NoEntry /\ expired(e, loc[p].current_time, loc[p].max_age)
                THEN /\ cache' = [cache EXCEPT ![k] = NoEntry]
                     /\ Goto(p, "cleanup_retain",
                             [loc[p] EXCEPT !.pos = j,
                                            !.freed_size = @ + e.size,
                                            !.removed_count = @ + 1,
                                            !.removed = @ \cup {e.uid}])
                ELSE /\ cache' = cache
                     /\ Goto(p, "cleanup_retain", [loc[p] EXCEPT !.pos = j])
    /\ UNCHANGED <<now, enabled, max_size, routes, faults, total_size, ops>>

\* if removed_count > 0 { self.total_size.fetch_sub(freed_size) }
cleanup_sub(p) ==
    /\ pc[p] = "cleanup_retain"
    /\ loc[p].pos = Len(KeyOrder)
    /\ total_size' = IF loc[p].removed_count > 0
                     THEN total_size - loc[p].freed_size
                     ELSE total_size
    /\ Return(p, loc[p])
    /\ UNCHANGED <<now, enabled, max_size, routes, faults, cache, ops>>

(***************************************************************************)
(* The file system                                                         *)
(***************************************************************************)
\* PathBuf::join: an absolute argument replaces the base
path_join(dir, path) ==
    IF starts_with(path, <<"/">>)
    THEN [dir |-> "/", path |-> path]
    ELSE [dir |-> dir, path |-> path]


\* the files on disk: the files under the root directory, one error page in
\* the error-pages directory and one file outside both
FileSystem ==
    { [at |-> path_join("root", f.path), content |-> f.content] : f \in RootFiles }
    \cup { [at |-> path_join("errors", Str502Html), content |-> Content(1, "e")],
           [at |-> [dir |-> "/", path |-> <<"/", "a">>],
            content |-> Content(1, "s")] }

\* tokio::fs::read
fs_read_ok(at) == \E f \in FileSystem : f.at = at
fs_read(at) == (CHOOSE f \in FileSystem : f.at = at).content

\* Path::file_name: the last component
file_name(path) ==
    LET slashes == {i \in 1..Len(path) : path[i] = "/"}
    IN IF slashes = {} THEN path
       ELSE SubSeq(path, (CHOOSE i \in slashes : \A j \in slashes : j <= i) + 1,
                   Len(path))

\* Path::extension: what follows the last dot of the file name, none for a
\* name without a dot or with its only dot in front
extension(path) ==
    LET name == file_name(path)
        dots == {i \in 2..Len(name) : name[i] = "."}
    IN IF dots = {} THEN <<"?">>
       ELSE SubSeq(name, (CHOOSE i \in dots : \A j \in dots : j <= i) + 1,
                   Len(name))

\* get_mime_type
get_mime_type(file_path) ==
    LET ext == extension(file_path)
    IN CASE ext \in {<<"h", "t", "m", "l">>, <<"h", "t", "m">>}
                 -> "text/html; charset=utf-8"
         [] ext = <<"c", "s", "s">> -> "text/css"
         [] ext = <<"j", "s">> -> "application/javascript"
         [] ext = <<"j", "s", "o", "n">> -> "application/json"
         [] ext = <<"p", "n", "g">> -> "image/png"
         [] ext \in {<<"j", "p", "g">>, <<"j", "p", "e", "g">>} -> "image/jpeg"
         [] ext = <<"g", "i", "f">> -> "image/gif"
         [] ext = <<"s", "v", "g">> -> "image/svg+xml"
         [] ext = <<"i", "c", "o">> -> "image/x-icon"
         [] ext = <<"t", "x", "t">> -> "text/plain"
         [] ext = <<"p", "d", "f">> -> "application/pdf"
         [] ext = <<"z", "i", "p">> -> "application/zip"
         [] ext = <<"x", "m", "l">> -> "application/xml"
         [] OTHER -> "application/octet-stream"

(***************************************************************************)
(* FileCache::initialize and FileCache::load_file_to_cache                 *)
(***************************************************************************)
\* mutant of skipped_name: only hidden files are skipped
skipped_name_hidden_only(filename) == starts_with(filename, <<".">>)

\* hidden and temporary files are skipped
skipped_name(filename) ==
    starts_with(filename, <<".">>) \/ ends_with(filename, <<"~">>)

\* the loop of initialize after load_file_to_cache returned Ok(size): the
\* walk stops once the loaded total exceeds the budget
initialize_loaded(p, l, size) ==
    LET l2 == [l EXCEPT !.loaded = @ + size]
    IN IF l2.loaded > max_size
       THEN Return(p, l2)
       ELSE Goto(p, "init_walk", l2)

\* mutant of initialize: the walk runs whether or not the cache is enabled
initialize_ignores_enabled(p) ==
    /\ CanCall(p)
    /\ ops = 0
    /\ ops' = ops + 1
    /\ Goto(p, "init_walk",
            [Enter("initialize") EXCEPT !.walk = {f.path : f \in RootFiles}])
    /\ UNCHANGED <<now, enabled, max_size, routes, faults, cache, total_size>>

\* HttpServer::start calls initialize before it serves
initialize(p) ==
    /\ CanCall(p)
    /\ ops = 0
    /\ ops' = ops + 1
    /\ LET l == [Enter("initialize") EXCEPT !.walk = {f.path : f \in RootFiles}]
       IN IF ~enabled THEN Return(p, l) ELSE Goto(p, "init_walk", l)
    /\ UNCHANGED <<now, enabled, max_size, routes, faults, cache, total_size>>

\* one file of the walk, in the order the file system yields: the name filter,
\* then load_file_to_cache up to CachedFile::new (metadata, the ceiling, the
\* load of total_size and the budget check, the read); io_ok is the outcome
\* of fs::metadata and fs::read
initialize_visit(p) ==
    /\ pc[p] = "init_walk"
    /\ \E f \in RootFiles, io_ok \in (IF faults THEN BOOLEAN ELSE {TRUE}) :
          /\ f.path \in loc[p].walk
          /\ LET l == [loc[p] EXCEPT
                          !.walk = @ \ {f.path},
                          !.visits = @ \cup {[path |-> f.path,
                                              total |-> total_size,
                                              io_ok |-> io_ok]}]
             IN IF skipped_name(file_name(f.path)) \/ ~io_ok
                THEN Goto(p, "init_walk", l)
                ELSE IF over_ceiling(f.content.len)
                THEN initialize_loaded(p, l, 0)
                ELSE IF over_budget(total_size, f.content.len)
                THEN initialize_loaded(p, l, 0)
                ELSE Goto(p, "load_store",
                          [l EXCEPT !.path = f.path,
                                    !.entry = CachedFile_new(
                                        f.content, f.mime, 0, now,
                                        10 * ops + key_index(f.path))])
    /\ UNCHANGED <<now, enabled, max_size, routes, faults, cache, total_size, ops>>

\* self.cache.insert(cache_key, cached_file)
load_file_store(p) ==
    /\ pc[p] = "load_store"
    /\ cache' = [cache EXCEPT ![loc[p].path] = loc[p].entry]
    /\ Goto(p, "load_add", loc[p])
    /\ UNCHANGED <<now, enabled, max_size, routes, faults, total_size, ops>>

\* self.total_size.fetch_add(actual_size), then the loop of initialize
load_file_add(p) ==
    /\ pc[p] = "load_add"
    /\ total_size' = total_size + loc[p].entry.size
    /\ initialize_loaded(p, [loc[p] EXCEPT !.entry = NoEntry],
                         loc[p].entry.size)
    /\ UNCHANGED <<now, enabled, max_size, routes, faults, cache, ops>>

\* the walk is over
initialize_done(p) ==
    /\ pc[p] = "init_walk"
    /\ loc[p].walk = {}
    /\ Return(p, loc[p])
    /\ UNCHANGED <<now, enabled, max_size, routes, faults, cache, total_size, ops>>

(***************************************************************************)
(* handle_request                                                          *)
(***************************************************************************)
\* the characters of a raw request path: literal characters and the escapes
\* %2F (a slash) and %FF (a byte that is no UTF-8)
RawChars == {"/", ".", "a", "%2F", "%FF"}

RECURSIVE seqs_upto(_, _)
seqs_upto(S, n) ==
    IF n = 0 THEN {<<>>}
    ELSE LET shorter == seqs_upto(S, n - 1)
         IN shorter \cup {Append(t, c) : t \in shorter, c \in S}

\* Uri::path of a request: a slash and up to MaxRawLen more characters
RawPaths == {<<"/">> \o t : t \in seqs_upto(RawChars, MaxRawLen)}

Methods == {"GET", "OPTIONS"}

\* percent_decode_str(path).decode_utf8(): each escape becomes its byte; the
\* result is an error when the bytes are no UTF-8
decode_ok(raw) == \A i \in 1..Len(raw) : raw[i] # "%FF"
decode(raw) == [i \in 1..Len(raw) |-> IF raw[i] = "%2F" THEN "/" ELSE raw[i]]

\* the first route whose `from` is a prefix of the decoded path; 0: none
find_route_last(rs, decoded_path) ==
    LET M == {i \in 1..Len(rs) : starts_with(decoded_path, rs[i].from)}
    IN IF M = {} THEN 0 ELSE CHOOSE i \in M : \A j \in M : j <= i

find_route(rs, decoded_path) ==
    LET M == {i \in 1..Len(rs) : starts_with(decoded_path, rs[i].from)}
    IN IF M = {} THEN 0 ELSE Min(M)

\* handle_static_file's normalization of the decoded path
normalize_static(path) ==
    IF path = <<"/">> \/ path = <<>> THEN IndexHtml
    ELSE IF starts_with(path, <<"/">>) THEN tail1(path)
    ELSE path

\* handle_static_file's safety check, on the normalized path
unsafe_path(normalized_path) ==
    contains(normalized_path, <<".", ".">>)
    \/ contains(normalized_path, <<"/", "/">>)

\* mutant of handle_request_branch: the safety check runs before the routes
handle_request_branch_check_first(method, raw) ==
    IF method = "OPTIONS" THEN "preflight"
    ELSE IF ~decode_ok(raw) THEN "bad_encoding"
    ELSE IF unsafe_path(normalize_static(decode(raw))) THEN "static"
    ELSE IF find_route(routes, decode(raw)) # 0 THEN "proxy"
    ELSE "static"

\* the order of handle_request's tests
handle_request_branch(method, raw) ==
    IF method = "OPTIONS" THEN "preflight"
    ELSE IF ~decode_ok(raw) THEN "bad_encoding"
    ELSE IF find_route(routes, decode(raw)) # 0 THEN "proxy"
    ELSE "static"

\* str::replace: every occurrence, left to right, without overlap
RECURSIVE replace_all(_, _, _)
replace_all(s, from, to) ==
    IF from = <<>> \/ occurrences(s, from) = {} THEN s
    ELSE LET i == Min(occurrences(s, from))
         IN SubSeq(s, 1, i - 1) \o to
            \o replace_all(SubSeq(s, i + Len(from), Len(s)), from, to)

\* str::replacen(from, to, 1): the first occurrence of from becomes to
replacen1(s, from, to) ==
    IF occurrences(s, from) = {} THEN s
    ELSE LET i == Min(occurrences(s, from))
         IN SubSeq(s, 1, i - 1) \o to \o SubSeq(s, i + Len(from), Len(s))

\* target_path.parse::<Uri>(): the empty string is no Uri
uri_parses(target_path) == target_path # <<>>

\* what the upstream may answer; ok = FALSE is a transport failure
UpstreamOutcomes ==
    { [ok |-> TRUE, status |-> 200, content |-> Content(1, "u")],
      [ok |-> TRUE, status |-> 500, content |-> Content(1, "v")],
      [ok |-> FALSE, status |-> 0, content |-> NoContent] }

\* the request is answered
Respond(p, l, resp) == Return(p, [l EXCEPT !.resp = resp, !.nresp = @ + 1])

\* hyper reads the next request of a connection once the response to the one
\* before it is written
\* handle_request up to the first access to the cache or the network: the
\* preflight test, the decoding, the scan of the routes; then either
\* handle_proxy_request up to the parse of the target, or handle_static_file
\* up to the safety check
handle_request(p, method, raw) ==
    /\ CanCall(p)
    /\ ops > 0
    /\ last.op \notin {"handle_request", "initialize"}
    /\ ops' = ops + 1
    /\ LET l == [Enter("handle_request") EXCEPT !.method = method, !.raw = raw]
           branch == handle_request_branch(method, raw)
           d == [l EXCEPT !.did_decode = TRUE, !.decoded = decode(raw)]
           r == [d EXCEPT !.did_routes = TRUE,
                          !.route = find_route(routes, decode(raw))]
       IN CASE branch = "preflight" ->
                 Respond(p, l, create_cors_response(200, EmptyBody))
            [] branch = "bad_encoding" ->
                 Respond(p, [l EXCEPT !.did_decode = TRUE],
                         create_error_response(400, "Invalid path encoding"))
            [] branch = "proxy" ->
                 LET api_config == routes[find_route(routes, decode(raw))]
                     x == [r EXCEPT !.via = "proxy",
                                    !.target = replacen1(r.decoded,
                                                         api_config.from,
                                                         api_config.to)]
                 IN IF ~uri_parses(x.target)
                    THEN Respond(p, x, create_error_response(
                                           400, "Invalid proxy target"))
                    ELSE Goto(p, "proxy_send", x)
            [] branch = "static" ->
                 LET x == [r EXCEPT !.via = "static",
                                    !.normalized = normalize_static(r.decoded)]
                 IN IF unsafe_path(x.normalized)
                    THEN Respond(p, x, create_error_response(
                                           403, "Access denied"))
                    ELSE Goto(p, "static_lookup", x)
    /\ UNCHANGED <<now, enabled, max_size, routes, faults, cache, total_size>>

\* CachedFile::get_content on a clone: the counter and last_access are shared
\* with the stored entry the clone was made from, as long as it is stored
get_content(m, cached_file) ==
    [k \in AllKeys |->
        IF m[k] # NoEntry /\ m[k].uid = cached_file.uid
        THEN [m[k] EXCEPT !.access_count = @ + 1, !.last_access = now]
        ELSE m[k]]

\* mutant of handle_proxy_request_send: a transport failure is answered as
\* an internal error
handle_proxy_request_send_500(p) ==
    /\ pc[p] = "proxy_send"
    /\ \E up \in UpstreamOutcomes :
          LET l == [loc[p] EXCEPT !.forwarded = TRUE, !.up = up]
          IN IF up.ok
             THEN Respond(p, l, Response(up.status, "", BytesBody(up.content)))
             ELSE Goto(p, "error_lookup", [l EXCEPT !.status = 500])
    /\ UNCHANGED <<now, enabled, max_size, routes, faults, cache, total_size, ops>>

\* client.request(req).await
handle_proxy_request_send(p) ==
    /\ pc[p] = "proxy_send"
    /\ \E up \in UpstreamOutcomes :
          LET l == [loc[p] EXCEPT !.forwarded = TRUE, !.up = up]
          IN IF up.ok
             THEN Respond(p, l, Response(up.status, "", BytesBody(up.content)))
             ELSE Goto(p, "error_lookup", [l EXCEPT !.status = 502])
    /\ UNCHANGED <<now, enabled, max_size, routes, faults, cache, total_size, ops>>

\* mutant of handle_static_file_lookup: the disk is read without consulting
\* the cache
handle_static_file_lookup_disk_first(p) ==
    /\ pc[p] = "static_lookup"
    /\ Goto(p, "static_read",
            [loc[p] EXCEPT !.lookups = Append(@, loc[p].normalized)])
    /\ UNCHANGED <<now, enabled, max_size, routes, faults, cache, total_size, ops>>

\* cache.get_fast(normalized_path)
handle_static_file_lookup(p) ==
    /\ pc[p] = "static_lookup"
    /\ LET hit == get_fast_result(cache, loc[p].normalized)
           l == [loc[p] EXCEPT !.lookups = Append(@, loc[p].normalized),
                               !.entry = hit]
       IN IF hit # NoEntry
          THEN Goto(p, "static_hit", l)
          ELSE Goto(p, "static_read", l)
    /\ UNCHANGED <<now, enabled, max_size, routes, faults, cache, total_size, ops>>

\* the 200 response of a cache hit: cached_file.get_content()
handle_static_file_hit(p) ==
    /\ pc[p] = "static_hit"
    /\ cache' = get_content(cache, loc[p].entry)
    /\ Respond(p, [loc[p] EXCEPT !.current_time = now],
               Response(200, loc[p].entry.mime_type,
                        BytesBody(loc[p].entry.content)))
    /\ UNCHANGED <<now, enabled, max_size, routes, faults, total_size, ops>>

\* fs::read(root.join(normalized_path)).await
handle_static_file_read(p) ==
    /\ pc[p] = "static_read"
    /\ LET at == path_join("root", loc[p].normalized)
           l == [loc[p] EXCEPT !.reads = Append(@, at)]
       IN IF fs_read_ok(at)
          THEN Respond(p, l, Response(200, get_mime_type(loc[p].normalized),
                                      BytesBody(fs_read(at))))
          ELSE Goto(p, "error_lookup", [l EXCEPT !.status = 404])
    /\ UNCHANGED <<now, enabled, max_size, routes, faults, cache, total_size, ops>>

\* mutant of error_file: the generic page for every status
error_file_generic(status) == StrErrorHtml

\* handle_error_page: the file of a status
error_file(status) ==
    CASE status = 404 -> Str404Html
      [] status = 400 -> Str400Html
      [] status = 403 -> Str403Html
      [] status = 500 -> Str500Html
      [] status = 502 -> Str502Html
      [] status = 503 -> Str503Html
      [] OTHER -> StrErrorHtml

\* handle_error_page: the message of the synthesized page
error_message(status) ==
    CASE status = 404 -> "404 - not found"
      [] status = 500 -> "500 - internal server error"
      [] status = 403 -> "403 - access denied"
      [] OTHER -> "error"

\* cache.get_fast("Errors/<file>")
handle_error_page_lookup(p) ==
    /\ pc[p] = "error_lookup"
    /\ LET key == StrErrorsDir \o error_file(loc[p].status)
           hit == get_fast_result(cache, key)
           l == [loc[p] EXCEPT !.lookups = Append(@, key), !.entry = hit]
       IN IF hit # NoEntry
          THEN Goto(p, "error_hit", l)
          ELSE Goto(p, "error_read", l)
    /\ UNCHANGED <<now, enabled, max_size, routes, faults, cache, total_size, ops>>

\* the response of a cached error page: cached_file.get_content()
handle_error_page_hit(p) ==
    /\ pc[p] = "error_hit"
    /\ cache' = get_content(cache, loc[p].entry)
    /\ Respond(p, [loc[p] EXCEPT !.current_time = now],
               Response(loc[p].status, "text/html; charset=utf-8",
                        BytesBody(loc[p].entry.content)))
    /\ UNCHANGED <<now, enabled, max_size, routes, faults, total_size, ops>>

\* fs::read(error_pages_directory.join(error_file)).await, else the page
\* create_error_response synthesizes
handle_error_page_read(p) ==
    /\ pc[p] = "error_read"
    /\ LET at == path_join("errors", error_file(loc[p].status))
           l == [loc[p] EXCEPT !.reads = Append(@, at)]
       IN IF fs_read_ok(at)
          THEN Respond(p, l, Response(loc[p].status, "text/html; charset=utf-8",
                                      BytesBody(fs_read(at))))
          ELSE Respond(p, l, create_error_response(
                                 loc[p].status, error_message(loc[p].status)))
    /\ UNCHANGED <<now, enabled, max_size, routes, faults, cache, total_size, ops>>

\* Server::bind(&addr).serve(make_svc): requests are accepted once initialize
\* has returned
serve(p) ==
    /\ Idle(p)
    /\ last.op = "initialize"
    /\ last' = NoLoc
    /\ UNCHANGED <<now, enabled, max_size, routes, faults, cache, total_size,
                   pc, loc, ops, prev_insert, overlapped, replaced>>

\* the response is written to the connection
response_written(p) ==
    /\ Idle(p)
    /\ last.op = "handle_request"
    /\ last' = NoLoc
    /\ UNCHANGED <<now, enabled, max_size, routes, faults, cache, total_size,
                   pc, loc, ops, prev_insert, overlapped, replaced>>

(***************************************************************************)
(* The clock                                                               *)
(***************************************************************************)
Tick ==
    /\ now < MaxTime
    /\ now' = now + 1
    /\ UNCHANGED <<enabled, max_size, routes, faults, cache, total_size, pc, loc,
                   ops, last, prev_insert, overlapped, replaced>>

(***************************************************************************)
(* Specifications                                                          *)
(***************************************************************************)
Init ==
    /\ now = 0
    /\ enabled \in BOOLEAN
    /\ max_size \in MaxSizes
    /\ routes = <<>>
    /\ faults = FALSE
    /\ cache = EmptyCache
    /\ total_size = 0
    /\ pc = [p \in Procs |-> "idle"]
    /\ loc = [p \in Procs |-> NoLoc]
    /\ ops = 0
    /\ last = NoLoc
    /\ prev_insert = NoLoc
    /\ overlapped = FALSE
    /\ replaced = FALSE

\* a task calls an operation of the cache
CacheCall(p) ==
    \/ \E path \in GetPaths : get(p, path)
    \/ \E path \in GetPaths : get_fast(p, path)
    \/ \E path \in InsertKeys, content \in Contents :
          insert_async_call(p, path, content, "text/plain")
    \/ \E max_age \in MaxAges : cleanup_old_entries(p, max_age)
    \/ get_stats(p)

\* a task takes the next step of the operation it runs
CacheStep(p) ==
    \/ insert_async_store(p)
    \/ insert_async_add(p)
    \/ cleanup_retain(p)
    \/ cleanup_sub(p)

\* the cache used by one caller, one operation at a time
SeqProc == CHOOSE p \in Procs : TRUE

NextSeq ==
    \/ CacheCall(SeqProc)
    \/ CacheStep(SeqProc)
    \/ Tick

SpecSeq == Init /\ [][NextSeq]_vars

\* the route lists of the configurations
RouteConfigs ==
    { <<>>,
      << [name |-> "x", from |-> <<"/", "a">>, to |-> <<"h", "/">>],
         [name |-> "y", from |-> <<"/">>, to |-> <<"g">>] >>,
      << [name |-> "z", from |-> <<"/", ".">>, to |-> <<>>] >> }

\* the server at its start; fs::metadata and fs::read of a file of the walk
\* may fail
InitServer ==
    /\ now = 0
    /\ enabled \in BOOLEAN
    /\ max_size \in MaxSizes
    /\ routes \in RouteConfigs
    /\ faults = TRUE
    /\ cache = EmptyCache
    /\ total_size = 0
    /\ pc = [p \in Procs |-> "idle"]
    /\ loc = [p \in Procs |-> NoLoc]
    /\ ops = 0
    /\ last = NoLoc
    /\ prev_insert = NoLoc
    /\ overlapped = FALSE
    /\ replaced = FALSE

\* the steps of initialize
InitializeStep(p) ==
    \/ initialize_visit(p)
    \/ load_file_store(p)
    \/ load_file_add(p)
    \/ initialize_done(p)

\* the steps of a request after handle_request's first
RequestStep(p) ==
    \/ handle_proxy_request_send(p)
    \/ handle_static_file_lookup(p)
    \/ handle_static_file_hit(p)
    \/ handle_static_file_read(p)
    \/ handle_error_page_lookup(p)
    \/ handle_error_page_hit(p)
    \/ handle_error_page_read(p)

\* the server: initialize, then the requests of one connection, one after the
\* other; the clock stands still
NextServer ==
    \/ initialize(SeqProc)
    \/ InitializeStep(SeqProc)
    \/ serve(SeqProc)
    \/ Quiet /\ \E method \in Methods, raw \in RawPaths :
                   handle_request(SeqProc, method, raw)
    \/ RequestStep(SeqProc)
    \/ response_written(SeqProc)

SpecServer == InitServer /\ [][NextServer]_vars

\* the cache used by concurrent tasks
Next ==
    \/ \E p \in Procs : CacheCall(p)
    \/ \E p \in Procs : CacheStep(p)
    \/ Tick

Spec == Init /\ [][Next]_vars

(***************************************************************************)
(* Two tasks interleaving insert_async, get and cleanup_old_entries        *)
(***************************************************************************)
\* the insertions and the paths the two tasks use
RaceInserts ==
    { [path |-> <<"a">>, content |-> Content(PerFileCeiling, "y")],
      [path |-> IndexHtml, content |-> Content(1, "x")] }

RacePaths == {<<"/", "a">>}

\* the task that runs the periodic sweep
SweepProc == CHOOSE p \in Procs : p # SeqProc

\* a task calls insert_async or get; the sweep task may also call
\* cleanup_old_entries
RaceCall(p) ==
    \/ \E path \in RacePaths : get(p, path)
    \/ \E i \in RaceInserts :
          insert_async_call(p, i.path, i.content, "text/plain")
    \/ p = SweepProc /\ \E max_age \in MaxAges : cleanup_old_entries(p, max_age)

NextRace ==
    \/ \E p \in Procs : RaceCall(p)
    \/ \E p \in Procs : CacheStep(p)
    \/ Tick

SpecRace == Init /\ [][NextRace]_vars

(***************************************************************************)
(* Claims about the cache used by one caller at a time (SpecSeq)           *)
(***************************************************************************)
\* the admission condition as the specification states it: the cache is
\* enabled, the content is within the per-file ceiling and the budget
Admissible(call) ==
    /\ enabled
    /\ call.content.len <= PerFileCeiling
    /\ call.pre_total + call.content.len <= max_size

\* C1: after insert(k, c, mime) on an enabled cache with len(c) <= 10 MiB and
\* total_size + len(c) <= max_size, the next get(k) or get_fast(k) returns an
\* entry whose content is c, for every key k
C1_RoundTrip ==
    ( /\ last.op \in {"get", "get_fast"}
      /\ prev_insert.op = "insert_async"
      /\ Admissible(prev_insert)
      /\ last.path = prev_insert.path )
    => ( /\ last.ret # NoEntry
         /\ last.ret.content = prev_insert.content )

\* C2: whenever no cache operation is in progress, total_size is the sum of
\* the sizes of the stored entries
C2_TotalIsSum == Quiet => total_size = stored_size(cache)

\* the keys cleanup removed: stored at its call, absent at its return
Removed(call) == stored_keys(call.pre_cache) \ stored_keys(cache)

\* C5: when cleanup(T) has returned: every remaining entry has
\* now - last_access <= T, every removed entry had now - last_access > T (an
\* entry of age exactly T is retained, unchanged), and total_size went down
\* by exactly the sizes of the removed entries
C5_Cleanup ==
    (Quiet /\ last.op = "cleanup" /\ enabled) =>
        /\ \A k \in stored_keys(cache) :
              last.current_time - cache[k].last_access <= last.max_age
        /\ \A k \in Removed(last) :
              last.current_time - last.pre_cache[k].last_access > last.max_age
        /\ \A k \in stored_keys(last.pre_cache) :
              last.current_time - last.pre_cache[k].last_access <= last.max_age
                  => cache[k] = last.pre_cache[k]
        /\ stored_keys(cache) \subseteq stored_keys(last.pre_cache)
        /\ total_size = last.pre_total - sum_sizes(last.pre_cache, Removed(last))

\* a cleanup that removed one entry and kept another of age exactly T
C5_Witness ==
    /\ Quiet /\ last.op = "cleanup" /\ enabled
    /\ Removed(last) # {}
    /\ \E k \in stored_keys(cache) :
          last.current_time - cache[k].last_access = last.max_age

\* C6: when insert(k, c, mime) has returned: if it was admitted total_size is
\* its value at the call plus len(c); if it was refused (disabled, over the
\* ceiling or over the budget) total_size and the map are as at the call
C6_InsertFrame ==
    (Quiet /\ last.op = "insert_async") =>
        IF Admissible(last)
        THEN total_size = last.pre_total + last.content.len
        ELSE total_size = last.pre_total /\ cache = last.pre_cache

\* an admitted insertion that fills the budget exactly
C6_Witness ==
    /\ Quiet /\ last.op = "insert_async" /\ Admissible(last)
    /\ last.pre_total > 0
    /\ total_size = max_size

\* the relative paths p of the claim: non-empty, no leading slash
RelativePaths == {p \in AllKeys : p # <<>> /\ ~starts_with(p, <<"/">>)}

\* C7: get(""), get("/") and get("index.html") return the entry stored under
\* index.html (None when there is none), and get("/p") and get("p") return
\* the entry stored under p, for every non-empty p without a leading slash
C7_GetNormalization ==
    (last.op = "get" /\ enabled) =>
        /\ last.path \in {<<>>, <<"/">>, IndexHtml}
              => last.ret = lookup(last.pre_cache, IndexHtml)
        /\ \A p \in RelativePaths :
              last.path \in {p, <<"/">> \o p}
                  => last.ret = lookup(last.pre_cache, p)

\* get("") hit the entry stored under index.html
C7_Witness ==
    /\ last.op = "get" /\ enabled
    /\ last.path = <<>>
    /\ last.ret # NoEntry
    /\ last.ret = cache[IndexHtml]

\* C16: a get(path) that hits increments the access counter of the entry by
\* one and sets its last_access to the time of the call before it returns; a
\* get that misses changes nothing
C16_AccessBookkeeping ==
    (Quiet /\ last.op = "get" /\ enabled) =>
        LET k == get_cache_key(last.path)
        IN IF last.ret # NoEntry
           THEN /\ cache[k].access_count = last.pre_cache[k].access_count + 1
                /\ cache[k].last_access = last.current_time
           ELSE cache = last.pre_cache

\* C21: get and get_fast compute the same cache key and return the same
\* result for every path and every cache state, and the router's
\* normalization followed by get_fast looks up the key that get looks up for
\* the original path
C21_GetEquivalence ==
    (last.op \in {"get", "get_fast"} /\ enabled) =>
        /\ get_cache_key(last.path) = get_fast_cache_key(last.path)
        /\ last.ret = get_result(last.pre_cache, last.path)
        /\ last.ret = get_fast_result(last.pre_cache, last.path)
        /\ get_fast_cache_key(normalize_static(last.path))
              = get_cache_key(last.path)

(***************************************************************************)
(* Claims about request dispatch (SpecServer)                              *)
(***************************************************************************)
\* a request has been answered and its record is `last`
Answered == last.op = "handle_request"

\* the decoded path of the answered request went to static dispatch
StaticDispatch == Answered /\ last.via = "static"

\* C3: static dispatch of a decoded path that contains ".." or "//" answers
\* 403 and performs no cache lookup and no file system read
C3_UnsafeRejected ==
    ( /\ StaticDispatch
      /\ \/ contains(last.decoded, <<".", ".">>)
         \/ contains(last.decoded, <<"/", "/">>) )
    => ( /\ last.resp.status = 403
         /\ last.lookups = <<>>
         /\ last.reads = <<>> )

\* C4: every file system read of static dispatch joins onto the root a path
\* that is relative and contains neither ".." nor "//", so that the file read
\* lies under the root directory
C4_ReadsUnderRoot ==
    (StaticDispatch /\ last.reads # <<>>) =>
        /\ ~starts_with(last.normalized, <<"/">>)
        /\ ~contains(last.normalized, <<".", ".">>)
        /\ ~contains(last.normalized, <<"/", "/">>)
        /\ last.reads[1].dir = "root"

\* the routes whose source prefix is a prefix of path
Matching(path) == {i \in 1..Len(routes) : starts_with(path, routes[i].from)}

\* the labels of a request in progress
RequestLabels ==
    {"proxy_send", "static_lookup", "static_hit", "static_read",
     "error_lookup", "error_hit", "error_read"}

\* C8: (1) OPTIONS is answered 200 with an empty body, without decoding the
\* path, consulting the routes or touching the cache; (2) else a path that
\* fails decoding is answered 400 before any route is examined; (3) else a
\* path matching a route is proxied, also when it contains ".." or "//";
\* (4) only a path matching no route goes to static dispatch. A request is
\* answered exactly once, and a request in progress can always go on
C8_Dispatch ==
    /\ Answered =>
          /\ last.nresp = 1
          /\ last.method = "OPTIONS" =>
                /\ last.resp = Response(200, "", EmptyBody)
                /\ ~last.did_decode /\ ~last.did_routes /\ last.via = ""
                /\ last.lookups = <<>> /\ last.reads = <<>> /\ ~last.forwarded
          /\ (last.method # "OPTIONS" /\ \E i \in 1..Len(last.raw) :
                                            last.raw[i] = "%FF") =>
                /\ last.resp.status = 400
                /\ ~last.did_routes /\ last.via = ""
                /\ last.lookups = <<>> /\ last.reads = <<>> /\ ~last.forwarded
          /\ (last.method # "OPTIONS" /\ last.did_decode
                /\ \A i \in 1..Len(last.raw) : last.raw[i] # "%FF") =>
                /\ Matching(last.decoded) # {} => last.via = "proxy"
                /\ Matching(last.decoded) = {} => last.via = "static"
          /\ last.via = "proxy" => last.reads \in {<<>>, <<path_join("errors", Str502Html)>>}
    /\ \A p \in Procs :
          /\ loc[p].nresp = 0
          /\ pc[p] \in RequestLabels => ENABLED RequestStep(p)

\* a request whose path contains ".." and matches a route was forwarded
C8_Witness ==
    /\ Answered /\ last.via = "proxy" /\ last.forwarded
    /\ contains(last.decoded, <<".", ".">>)
    /\ last.nresp = 1

\* C9: the route used for proxying is the one of smallest index whose source
\* prefix is a prefix of the decoded path; nothing is proxied when none matches
C9_FirstMatch ==
    (Answered /\ last.did_routes) =>
        /\ \A i \in Matching(last.decoded) :
              (\A j \in Matching(last.decoded) : i <= j) => last.route = i
        /\ Matching(last.decoded) = {} =>
              (last.route = 0 /\ last.via # "proxy" /\ ~last.forwarded)
        /\ last.via = "proxy" => last.route \in Matching(last.decoded)

\* two routes match and the first was used
C9_Witness ==
    /\ Answered /\ last.forwarded
    /\ Cardinality(Matching(last.decoded)) = 2
    /\ last.route = 1

\* C10: the rewritten target of a request matched by route (from, to), with
\* decoded path from ++ rest, is to ++ rest
C10_Rewrite ==
    (Answered /\ last.via = "proxy") =>
        LET api_config == routes[last.route]
            rest == SubSeq(last.decoded, Len(api_config.from) + 1,
                           Len(last.decoded))
        IN /\ last.decoded = api_config.from \o rest
           /\ last.target = api_config.to \o rest

\* the source prefix occurs again in the rest of the rewritten path
C10_Witness ==
    /\ Answered /\ last.via = "proxy" /\ last.forwarded
    /\ LET api_config == routes[last.route]
           rest == SubSeq(last.decoded, Len(api_config.from) + 1,
                          Len(last.decoded))
       IN /\ contains(rest, api_config.from)
          /\ last.target = api_config.to \o rest

(***************************************************************************)
(* Claims about static resolution and error pages (SpecServer)             *)
(***************************************************************************)
\* the answered request went to static dispatch and passed the safety check
StaticResolved == StaticDispatch /\ ~unsafe_path(last.normalized)

\* the entry the cache held for the request's path when the request began
\* (None when it held none, or when the cache is disabled)
HitAtCall(call) == get_fast_result(call.pre_cache, call.normalized)

\* the file of the request's path under the root directory
RootFile(call) == path_join("root", call.normalized)

\* C11: static resolution of a path that passes the safety check: on a cache
\* hit the response is 200 with the entry's content and mime type and the
\* disk is not read; on a miss with a successful disk read it is 200 with the
\* file's bytes; on a miss and a disk failure it comes from the error page
\* resolver with status 404, which is invoked in no other case
C11_StaticResolution ==
    StaticResolved =>
        /\ last.lookups # <<>> /\ last.lookups[1] = last.normalized
        /\ HitAtCall(last) # NoEntry =>
              /\ last.resp = Response(200, HitAtCall(last).mime_type,
                                      BytesBody(HitAtCall(last).content))
              /\ last.reads = <<>>
              /\ last.status = 0
              /\ Len(last.lookups) = 1
        /\ (HitAtCall(last) = NoEntry /\ fs_read_ok(RootFile(last))) =>
              /\ last.resp.status = 200
              /\ last.resp.body = BytesBody(fs_read(RootFile(last)))
              /\ last.reads = <<RootFile(last)>>
              /\ last.status = 0
              /\ Len(last.lookups) = 1
        /\ (HitAtCall(last) = NoEntry /\ ~fs_read_ok(RootFile(last))) =>
              /\ last.status = 404
              /\ last.resp.status = 404
              /\ last.reads[1] = RootFile(last)
              /\ last.lookups =
                    <<last.normalized, StrErrorsDir \o Str404Html>>

\* a request answered from the cache: 200 with the content of the entry
C11_Witness ==
    /\ StaticResolved
    /\ HitAtCall(last) # NoEntry
    /\ last.reads = <<>>
    /\ last.resp.status = 200
    /\ last.resp.body.content = HitAtCall(last).content

\* the error page resolver was invoked for the answered request
Resolved == Answered /\ last.status # 0

\* the status table of the error pages
ErrorPageTable(s) ==
    CASE s = 404 -> Str404Html
      [] s = 400 -> Str400Html
      [] s = 403 -> Str403Html
      [] s = 500 -> Str500Html
      [] s = 502 -> Str502Html
      [] s = 503 -> Str503Html
      [] OTHER -> StrErrorHtml

\* statuses with and without a page of their own
SampleStatuses == {400, 401, 403, 404, 418, 500, 501, 502, 503}

\* the cached error page of the answered request when the request began
ErrorHitAtCall(call) ==
    get_fast_result(call.pre_cache, StrErrorsDir \o ErrorPageTable(call.status))

\* the page of the answered request under the error-pages directory
ErrorFileOnDisk(call) == path_join("errors", ErrorPageTable(call.status))

\* C12: error page resolution for status s answers with status s, from the
\* cache entry Errors/<file> (the file of the status table, error.html for a
\* status without one), else from the file under the error-pages directory,
\* else with a synthesized page that holds the numeric status and a fixed
\* message; a missing page is no error
C12_ErrorPage ==
    /\ \A s \in SampleStatuses : error_file(s) = ErrorPageTable(s)
    /\ Resolved =>
          /\ last.nresp = 1
          /\ last.resp.status = last.status
          /\ last.lookups[Len(last.lookups)] =
                StrErrorsDir \o ErrorPageTable(last.status)
          /\ ErrorHitAtCall(last) # NoEntry =>
                /\ last.resp.body = BytesBody(ErrorHitAtCall(last).content)
                /\ \A i \in 1..Len(last.reads) : last.reads[i].dir # "errors"
          /\ (ErrorHitAtCall(last) = NoEntry
                /\ fs_read_ok(ErrorFileOnDisk(last))) =>
                /\ last.resp.body = BytesBody(fs_read(ErrorFileOnDisk(last)))
                /\ last.reads[Len(last.reads)] = ErrorFileOnDisk(last)
          /\ (ErrorHitAtCall(last) = NoEntry
                /\ ~fs_read_ok(ErrorFileOnDisk(last))) =>
                /\ last.resp.body.kind = "page"
                /\ last.resp.body.code = last.status
                /\ last.resp.body.message = error_message(last.status)
                /\ last.resp.body.message # ""
                /\ last.reads[Len(last.reads)] = ErrorFileOnDisk(last)

\* a request for a missing file with no 404 page cached or on disk: the
\* synthesized page with the code 404
C12_Witness ==
    /\ Resolved /\ last.via = "static"
    /\ ErrorHitAtCall(last) = NoEntry
    /\ ~fs_read_ok(ErrorFileOnDisk(last))
    /\ last.resp.status = 404
    /\ last.resp.body.kind = "page" /\ last.resp.body.code = 404

\* C20: after a static request missed the cache and was served from the
\* disk, with the cache enabled and the content within the per-file ceiling
\* and the budget, the content is in the cache, so that a following request
\* for the same path is a cache hit
C20_WriteThrough ==
    ( /\ StaticResolved /\ enabled
      /\ HitAtCall(last) = NoEntry
      /\ fs_read_ok(RootFile(last))
      /\ fs_read(RootFile(last)).len <= PerFileCeiling
      /\ last.pre_total + fs_read(RootFile(last)).len <= max_size )
    => ( /\ get_fast_result(cache, last.normalized) # NoEntry
         /\ get_fast_result(cache, last.normalized).content
               = fs_read(RootFile(last)) )

(***************************************************************************)
(* Claims about proxying (SpecServer)                                      *)
(***************************************************************************)
\* the answered request was handed to handle_proxy_request
Proxied == Answered /\ last.via = "proxy"

\* C13: when the rewritten target cannot be parsed the request is answered
\* 400 and nothing is forwarded; when the upstream transport fails it is
\* answered 502 by the error page resolver; when the upstream answers, its
\* status and body are passed through unchanged; a proxied request is always
\* answered, once
C13_ProxyFailure ==
    /\ Proxied =>
          /\ last.nresp = 1
          /\ ~uri_parses(last.target) =>
                /\ last.resp.status = 400
                /\ ~last.forwarded
                /\ last.lookups = <<>> /\ last.reads = <<>>
          /\ uri_parses(last.target) =>
                /\ last.forwarded
                /\ last.up.ok =>
                      /\ last.resp.status = last.up.status
                      /\ last.resp.body = BytesBody(last.up.content)
                      /\ last.status = 0
                      /\ last.lookups = <<>> /\ last.reads = <<>>
                /\ ~last.up.ok =>
                      /\ last.status = 502
                      /\ last.resp.status = 502
                      /\ last.lookups = <<StrErrorsDir \o Str502Html>>
    /\ \A p \in Procs :
          (loc[p].via = "proxy" /\ ~Idle(p)) =>
              /\ pc[p] \in {"proxy_send", "error_lookup", "error_hit",
                            "error_read"}
              /\ pc[p] = "proxy_send" => ENABLED handle_proxy_request_send(p)
              /\ pc[p] # "proxy_send" =>
                    ENABLED (\/ handle_error_page_lookup(p)
                             \/ handle_error_page_hit(p)
                             \/ handle_error_page_read(p))

\* the upstream transport failed and the request was answered 502
C13_Witness ==
    /\ Proxied /\ last.forwarded /\ ~last.up.ok
    /\ last.status = 502
    /\ last.resp.status = 502

(***************************************************************************)
(* The server without routes, together with direct calls of the cache      *)
(***************************************************************************)
InitAll ==
    /\ now = 0
    /\ enabled \in BOOLEAN
    /\ max_size \in MaxSizes
    /\ routes = <<>>
    /\ faults = FALSE
    /\ cache = EmptyCache
    /\ total_size = 0
    /\ pc = [p \in Procs |-> "idle"]
    /\ loc = [p \in Procs |-> NoLoc]
    /\ ops = 0
    /\ last = NoLoc
    /\ prev_insert = NoLoc
    /\ overlapped = FALSE
    /\ replaced = FALSE

\* the request paths: the index, a file that is cached when there is room,
\* a hidden file that is on disk only, and a file that does not exist
StaticRequests == {<<"/">>, <<"/", "a">>, <<"/", ".", "a">>, <<"/", ".">>}

\* the steps of a static request after handle_request's first
StaticStep(p) ==
    \/ handle_static_file_lookup(p)
    \/ handle_static_file_hit(p)
    \/ handle_static_file_read(p)
    \/ handle_error_page_lookup(p)
    \/ handle_error_page_hit(p)
    \/ handle_error_page_read(p)

\* one task: initialize, calls of the cache and static requests, one after
\* the other; the clock stands still
NextAll ==
    \/ initialize(SeqProc)
    \/ InitializeStep(SeqProc)
    \/ serve(SeqProc)
    \/ CacheCall(SeqProc)
    \/ CacheStep(SeqProc)
    \/ \E raw \in StaticRequests : handle_request(SeqProc, "GET", raw)
    \/ StaticStep(SeqProc)
    \/ response_written(SeqProc)

SpecAll == InitAll /\ [][NextAll]_vars

(***************************************************************************)
(* The server with its periodic sweep                                      *)
(***************************************************************************)
\* initialize has returned and the server accepts requests
Serving ==
    /\ ops > 0
    /\ last.op # "initialize"
    /\ pc[SeqProc] \notin {"init_walk", "load_store", "load_add"}

\* one connection and the sweep task the server spawns after initialize:
\* the steps of a static request interleave with the steps of the sweep
NextSweep ==
    \/ initialize(SeqProc)
    \/ InitializeStep(SeqProc)
    \/ serve(SeqProc)
    \/ \E raw \in StaticRequests : handle_request(SeqProc, "GET", raw)
    \/ StaticStep(SeqProc)
    \/ response_written(SeqProc)
    \/ Serving /\ \E max_age \in MaxAges :
          cleanup_old_entries(SweepProc, max_age)
    \/ cleanup_retain(SweepProc)
    \/ cleanup_sub(SweepProc)
    \/ Tick

SpecSweep == InitAll /\ [][NextSweep]_vars

(***************************************************************************)
(* Claims about the initial population (SpecServer)                        *)
(***************************************************************************)
\* the regular file under the root directory at path
FileAt(path) == CHOOSE f \in RootFiles : f.path = path

\* the name of a file as the claim reads it: the last component of the path
NameOk(path) ==
    LET name == file_name(path)
    IN /\ ~(Len(name) > 0 /\ name[1] = ".")
       /\ ~(Len(name) > 0 /\ name[Len(name)] = "~")

\* C19: initialize on an enabled cache, alone: a file is stored iff its name
\* neither starts with "." nor ends with "~", its size is <= 10 MiB, the
\* total at its visit plus its size is <= max_size, and its load did not
\* fail; a failed load does not abort the walk, which stops early only once
\* the loaded total exceeds the budget; afterwards total_size <= max_size
\* and total_size is the sum of the stored sizes
C19_InitialPopulation ==
    (Quiet /\ last.op = "initialize" /\ enabled) =>
        /\ \A v \in last.visits :
              LET f == FileAt(v.path)
              IN (cache[v.path] # NoEntry /\ cache[v.path].content = f.content)
                 <=> ( /\ NameOk(v.path)
                       /\ f.content.len <= PerFileCeiling
                       /\ v.total + f.content.len <= max_size
                       /\ v.io_ok )
        /\ stored_keys(cache) \subseteq {v.path : v \in last.visits}
        /\ \/ {v.path : v \in last.visits} = {f.path : f \in RootFiles}
           \/ last.loaded > max_size
        /\ total_size <= max_size
        /\ total_size = stored_size(cache)

\* a walk in which one load failed, one file was refused for the budget and
\* a file visited after both was stored
C19_Witness ==
    /\ Quiet /\ last.op = "initialize" /\ enabled
    /\ \E v \in last.visits : ~v.io_ok /\ NameOk(v.path)
    /\ \E v \in last.visits :
          /\ v.io_ok /\ NameOk(v.path)
          /\ FileAt(v.path).content.len <= PerFileCeiling
          /\ v.total + FileAt(v.path).content.len > max_size
          /\ cache[v.path] = NoEntry
    /\ total_size = max_size

(***************************************************************************)
(* Claims about the cache together with the server (SpecAll)               *)
(***************************************************************************)
\* the positions inside initialize, insert_async and cleanup_old_entries
\* that follow their enabled guard
PastEnabledGuard ==
    {"init_walk", "load_store", "load_add", "insert_store", "insert_add",
     "cleanup_retain"}

\* C14: with the cache disabled, initialize, insert and cleanup do nothing
\* and get and get_fast return None for every path: the map stays empty and
\* total_size stays 0; a static request is still answered from the disk
C14_Disabled ==
    ~enabled =>
        /\ cache = EmptyCache
        /\ total_size = 0
        /\ \A p \in Procs : pc[p] \notin PastEnabledGuard
        /\ last.op \in {"get", "get_fast"} => last.ret = NoEntry
        /\ last.op \in {"initialize", "insert_async", "cleanup"} =>
              /\ cache = last.pre_cache
              /\ total_size = last.pre_total
        /\ (StaticResolved /\ fs_read_ok(RootFile(last))) =>
              /\ last.resp.status = 200
              /\ last.resp.body = BytesBody(fs_read(RootFile(last)))
              /\ last.reads = <<RootFile(last)>>

\* with the cache disabled, an insertion within the limits was followed by a
\* static request that was answered from the disk
C14_Witness ==
    /\ ~enabled
    /\ prev_insert.op = "insert_async"
    /\ prev_insert.content.len <= PerFileCeiling
    /\ StaticResolved
    /\ last.resp.status = 200
    /\ last.reads = <<RootFile(last)>>

\* the operations that return without writing to the map or the counter: get,
\* get_fast, get_stats and a refused insert
ReadOnlyCall(call) ==
    \/ call.op \in {"get", "get_fast", "get_stats"}
    \/ call.op = "insert_async" /\ ~Admissible(call)

\* the content stored under k at the call is still stored under some key
Reachable(call, k) ==
    \E k2 \in stored_keys(cache) : cache[k2].content = call.pre_cache[k].content

\* C17 as stated: get, get_fast, stats and a refused insert leave the stored
\* keys, the stored contents and total_size unchanged, and no operation other
\* than cleanup makes the content of a stored entry unreachable
C17_OnlySweepDestroys ==
    /\ (Quiet /\ ReadOnlyCall(last)) =>
          /\ stored_keys(cache) = stored_keys(last.pre_cache)
          /\ \A k \in stored_keys(cache) :
                cache[k].content = last.pre_cache[k].content
          /\ total_size = last.pre_total
    /\ (Quiet /\ last.op \notin {"none", "cleanup"}) =>
          \A k \in stored_keys(last.pre_cache) : Reachable(last, k)

\* C17: get, get_fast, stats and a refused insert leave the stored keys, the
\* stored contents and total_size unchanged; no operation other than cleanup
\* removes a key, and the content stored under a key changes only when an
\* admitted insert stores its content under that same key (no entry under
\* another key is evicted to make room)
C17_OnlySweepOrReplace ==
    /\ (Quiet /\ ReadOnlyCall(last)) =>
          /\ stored_keys(cache) = stored_keys(last.pre_cache)
          /\ \A k \in stored_keys(cache) :
                cache[k].content = last.pre_cache[k].content
          /\ total_size = last.pre_total
    /\ (Quiet /\ last.op \notin {"none", "cleanup"}) =>
          \A k \in stored_keys(last.pre_cache) :
              /\ cache[k] # NoEntry
              /\ \/ cache[k].content = last.pre_cache[k].content
                 \/ /\ last.op = "insert_async" /\ Admissible(last)
                    /\ k = last.path
                    /\ cache[k].content = last.content

\* an admitted insert replaced the content stored under its key and left
\* the entry under another key alone
C17_Witness ==
    /\ Quiet /\ last.op = "insert_async" /\ Admissible(last)
    /\ last.pre_cache[last.path] # NoEntry
    /\ last.pre_cache[last.path].content # last.content
    /\ cache[last.path].content = last.content
    /\ \E k \in stored_keys(last.pre_cache) :
          k # last.path /\ cache[k] = last.pre_cache[k]

\* C18: every stored entry has size = len(content) and size <= 10 MiB, whether
\* it was stored by initialize or by insert: content of exactly 10 MiB is
\* admitted when the budget has room, content one byte larger is never stored
C18_EntrySize ==
    /\ \A k \in stored_keys(cache) :
          /\ cache[k].size = cache[k].content.len
          /\ cache[k].size <= PerFileCeiling
    /\ \A p \in Procs :
          loc[p].entry # NoEntry =>
              /\ loc[p].entry.size = loc[p].entry.content.len
              /\ loc[p].entry.size <= PerFileCeiling
    /\ ( /\ Quiet /\ last.op = "insert_async" /\ enabled
         /\ last.content.len = PerFileCeiling
         /\ last.pre_total + PerFileCeiling <= max_size )
       => cache[last.path].content = last.content

\* beside an entry stored before, an insert of exactly 10 MiB was admitted
\* and stored
C18_Witness ==
    /\ Quiet /\ last.op = "insert_async" /\ enabled
    /\ last.content.len = PerFileCeiling
    /\ cache[last.path].size = PerFileCeiling
    /\ cache[last.path].content = last.content
    /\ \E k \in stored_keys(last.pre_cache) :
          k # last.path /\ cache[k] = last.pre_cache[k]

(***************************************************************************)
(* Claims about the cache used by concurrent tasks (Spec)                  *)
(***************************************************************************)
\* C15: as long as no two admissions overlapped between budget check and
\* counter increment, total_size <= max_size in every state; when the budget
\* is exceeded after admissions overlapped, the counter still equals the sum
\* of the stored sizes once every operation has completed
C15_Budget ==
    /\ ~overlapped => ~u64_gt(total_size, max_size)
    /\ (Quiet /\ overlapped /\ u64_gt(total_size, max_size)) =>
          total_size = stored_size(cache)

(***************************************************************************)
(* Claims about interleaved insert_async, get and cleanup (SpecRace)       *)
(***************************************************************************)
\* C22: if every admitted insertion and initialize load stored its entry
\* under a key that was absent from the map at the moment of the store, then
\* whenever no operation is in progress total_size equals the sum of the
\* sizes of the stored entries, in every interleaving of insert, get and
\* cleanup
C22_TotalIsSumWithoutReplacement ==
    (Quiet /\ ~replaced) => total_size = stored_size(cache)

\* an insert was removed by a sweep of the other task between its store and
\* its fetch_add, nothing was stored over a present key, an entry is still
\* stored and both operations have returned
C22_Witness ==
    /\ Quiet
    /\ ~replaced
    /\ last.op = "insert_async"
    /\ last.admitted
    /\ cache[last.path] = NoEntry
    /\ stored_size(cache) > 0

\* C23: the u64 counter total_size never underflows: in every interleaving
\* of insert (store, then fetch_add) and cleanup (removals, then one
\* fetch_sub) the amount the sweep subtracts is at most the counter's value,
\* so the counter never wraps and the budget check never reads a wrapped
\* counter
C23_NoUnderflow ==
    /\ total_size >= 0
    /\ \A p \in Procs :
          (pc[p] = "cleanup_retain" /\ loc[p].pos = Len(KeyOrder)) =>
              loc[p].freed_size <= total_size

(***************************************************************************)
(* Claims about requests interleaved with the sweep (SpecSweep)            *)
(***************************************************************************)
\* the answered request was served from the cache: its last lookup hit and
\* get_content ran on the clone at the time last.current_time
ServedFromCache == Answered /\ last.entry # NoEntry

\* C24: an entry a request looked up and served at time t is not removed by a
\* sweep that runs concurrently or afterwards with now - t <= T, in every
\* interleaving of the request's lookup and get_content with the sweep: the
\* entry is still stored, or the sweep that removed it read a clock more than
\* T after t
C24_ServedNotSwept ==
    ServedFromCache =>
        \/ \E k \in AllKeys :
              cache[k] # NoEntry /\ cache[k].uid = last.entry.uid
        \/ \E p \in Procs :
              /\ pc[p] = "cleanup_retain"
              /\ last.entry.uid \in loc[p].removed
              /\ saturating_sub(loc[p].current_time, last.current_time)
                    > loc[p].max_age

====
